---- MODULE Spec2Model ----
(***************************************************************************)
(* Peer session handling of popcorn-hero: the connect page (Svelte), the   *)
(* peers / user stores it writes, the login and logout paths, and the      *)
(* Tauri backend commands and 'peer-status' events it talks to.            *)
(*                                                                         *)
(* The frontend is translated from the sources.  The backend commands      *)
(* (peer_start, peer_list, peer_connect, peer_disconnect) and the emitter  *)
(* of 'peer-status' are Rust code that is not part of the sources at hand; *)
(* they are modelled from the specification (sections 4 and 6) and are     *)
(* named Be...                                                             *)
(*                                                                         *)
(* PeerInfo.rtt_ms and PeerInfo.last_seen are carried through unchanged by *)
(* every frontend operation and are left out of the records.               *)
(*                                                                         *)
(* Around the connect page the module also holds the persistent user store *)
(* with the login / create forms and the account page's rename, the hero   *)
(* rotation of the series and movies pages, and the dev toolbar.           *)
(***************************************************************************)
EXTENDS Integers, Sequences, FiniteSets, TLC

\* ------------------------------------------------------------------ bounds
MaxPages == 2      \* connect-page instances created in one run
MaxPushes == 1     \* 'peer-status' events emitted in one run of Spec
RosterPushes == 3  \* 'peer-status' events emitted in one run of SpecRoster
RefreshPushes == 2 \* 'peer-status' events emitted in one run of SpecRefresh
ExchangePushes == 2 \* 'peer-status' events emitted in one run of SpecExchange
MonotonePushes == 2 \* 'peer-status' events emitted in one run of SpecMonotone
MaxStops == 2      \* stop() calls in one run of SpecStop
MaxTimers == 4     \* hide timers created in one run of SpecToolbar

\* ------------------------------------------------------------- value sets
Null == 0                         \* null of localNodeId / a malformed ticket
Users == {"alice", "bob"}
NoUser == "none"                  \* currentUser = null
NodeIds == {1, 2}                 \* identities of remote peers
NodeOfBind(n) == 10 + n           \* identity assigned by the n-th bind
NameInputs == {"x", ""}           \* remoteUsername as typed (trimmed)
Names == {"x", "Unknown"}         \* display names that reach the backend
Hints == {7, 8}                   \* reachability hints a ticket can carry
LocalIds == {NodeOfBind(n) : n \in 1..2}   \* identities a local bind can assign

\* the check value the codec appends to a ticket
Checksum(id, hints) == (id + hints) % 5

\* encode(identity, hints): the ticket string, as its sequence of fields
Encode(id, hints) == <<id, hints, Checksum(id, hints)>>

NoTicket == <<>>                  \* generatedTicket = ""
BadTicket == <<1, 7>>             \* a truncated ticket
\* remoteTicket as typed (trimmed, non blank): one ticket handed over by each
\* remote instance, and a string that is no ticket
Tickets == {Encode(1, 7), Encode(2, 8), BadTicket}
\* what the ticket field can hold when the join button is pressed
TicketInputs == Tickets \cup {NoTicket}
Pages == 1..MaxPages

PeerInfo == [node_id : NodeIds, username : Names, online : BOOLEAN]

VARIABLES
    \* stores (src/lib/stores)
    currentUser,            \* user.ts currentUser: a user or NoUser
    peers,                  \* peers.ts peers: sequence of PeerInfo
    localNodeId,            \* peers.ts localNodeId: node id or Null
    isPeerEndpointRunning,  \* peers.ts isPeerEndpointRunning
    \* connect page instances
    pageState,              \* "unborn" | "mounted" | "destroyed"
    pageUser,               \* user logged in when the instance mounted
    isStarting,             \* $state isStarting
    isConnecting,           \* $state isConnecting
    unlistenPeerStatus,     \* TRUE when the unlisten function is held
    mountPc,                \* position of the async onMount
    mountRet,               \* settled value of the call onMount awaits
    connPc, connArg, connRet,   \* connectToPeer and its peer_connect call
    discPc, discArg, discRet,   \* disconnectPeer and its peer_disconnect call
    generatedTicket,        \* $state generatedTicket
    isGenerating,           \* $state isGenerating
    genPc, genRet,          \* generateTicket and its peer_generate_ticket call
    \* backend
    listenerActive,         \* 'peer-status' handler registered, per instance
    beState,                \* "Idle" | "Running" | "Failed"
    beNodeId,               \* identity of the bound endpoint or Null
    beOwner,                \* user for whom the endpoint was bound
    beBinds,                \* number of binds performed
    beRoster,               \* set of PeerInfo, one per node_id
    events,                 \* 'peer-status' payloads in flight (FIFO)
    pushesLeft,             \* 'peer-status' events that may still be emitted
    beStops,                \* stop() calls performed since the last bind
    stopErr,                \* some stop() reported an error
    \* history
    usedTickets,            \* tickets with which a connect has succeeded
    pushDiff,               \* what the last applied 'peer-status' removed / added
    loginStale,             \* the last login found an endpoint bound for another user
    discNoop,               \* the 'peer_disconnect' being returned named an absent identity
    \* session (user.ts, +layout.svelte, the login / create forms, account page)
    storage,                \* sessionStorage["popcorn_hero_current_user"]
    isUserLoading,          \* user.ts isUserLoading
    existingUser,           \* +layout.svelte existingUser: a user or NoUser
    formPc, formRet,        \* handleSubmit of the form shown and its backend call
    formError,              \* the form shows a validation / PIN error
    renPc, renRet,          \* updateUsername of the account page and its call
    \* series / movies page (the one that is open)
    heroPage,               \* "none" | "series" | "movies"
    allItems,               \* allSeries / allMovies
    heroIndex,              \* $state heroIndex
    loadPc, loadRet,        \* loadSeries / loadMovies and its call
    \* dev toolbar
    isPinned,               \* $state isPinned
    hideTimeout,            \* $state hideTimeout: a timer id or Null
    timers,                 \* ids of the setTimeout(hide) timers still pending
    timersMade,             \* number of timers created
    pointer,                \* "away" | "hitbox" | "bar"
    isShown,                \* target of the position spring: show() / hide()
    hiddenBadly             \* a hide() ran while pinned or under the pointer

storeVars == <<currentUser, peers, localNodeId, isPeerEndpointRunning>>
pageVars == <<pageState, pageUser, isStarting, isConnecting, unlistenPeerStatus>>
mountVars == <<mountPc, mountRet>>
connVars == <<connPc, connArg, connRet>>
discVars == <<discPc, discArg, discRet>>
genVars == <<generatedTicket, isGenerating, genPc, genRet>>
stopVars == <<beStops, stopErr>>
beVars == <<listenerActive, beState, beNodeId, beOwner, beBinds, beRoster, events,
           pushesLeft, pushDiff, loginStale>>
beIdle == <<listenerActive, beState, beNodeId, beOwner, beBinds>>
sessVars == <<storage, isUserLoading, existingUser, formPc, formRet, formError, renPc, renRet>>
heroVars == <<heroPage, allItems, heroIndex, loadPc, loadRet>>
toolbarVars == <<isPinned, hideTimeout, timers, timersMade, pointer, isShown, hiddenBadly>>
uiVars == <<heroVars, toolbarVars>>
peerVars == <<peers, localNodeId, isPeerEndpointRunning, pageVars, mountVars, connVars,
              discVars, genVars, beVars, stopVars, usedTickets, discNoop>>
vars == <<storeVars, pageVars, mountVars, connVars, discVars, genVars, beVars,
          stopVars, usedTickets, discNoop, sessVars, uiVars>>

\* ------------------------------------------------------------- helpers
NoRet == [ok |-> FALSE, node |-> Null, list |-> <<>>]
OkNode(n) == [ok |-> TRUE, node |-> n, list |-> <<>>]
OkList(l) == [ok |-> TRUE, node |-> Null, list |-> l]
NoArg == [ticket |-> BadTicket, username |-> "x"]
NoPeer == [node_id |-> Null, username |-> "x", online |-> FALSE]
NoConn == [ok |-> FALSE, err |-> "", peer |-> NoPeer]
ConnErr(e) == [ok |-> FALSE, err |-> e, peer |-> NoPeer]
NoDiff == [removed |-> FALSE, added |-> FALSE]
NoGen == [ok |-> FALSE, ticket |-> NoTicket]

Ids(list) == {list[k].node_id : k \in 1..Len(list)}

\* list(): the roster as a sequence in identity order
RECURSIVE SortedList(_)
SortedList(S) ==
    IF S = {} THEN <<>>
    ELSE LET r == CHOOSE x \in S : \A y \in S : x.node_id <= y.node_id
         IN <<r>> \o SortedList(S \ {r})

\* upsert(record): insert or overwrite the entry of record.node_id
Upsert(S, rec) == {r \in S : r.node_id # rec.node_id} \cup {rec}

\* remove(identity): delete the entry if present
Remove(S, id) == {r \in S : r.node_id # id}

\* a decoder that reads the identity from the wrong field
Decode_Shifted(t) == IF Len(t) = 3 /\ t[3] = Checksum(t[1], t[2]) THEN t[2] ELSE Null

\* decode(ticket): the identity wrapped by a ticket, Null (MalformedTicket)
\* when the token is truncated or its check value does not match
Decode(t) == IF Len(t) = 3 /\ t[3] = Checksum(t[1], t[2]) THEN t[1] ELSE Null

\* a handler that merges the payload into the store instead of replacing it
OnPeerStatus_Merge(old, payload) ==
    payload \o SelectSeq(old, LAMBDA r : r.node_id \notin Ids(payload))

\* a handler that writes the first pushed record and keeps the rest of the
\* old list
OnPeerStatus_Torn(old, payload) ==
    IF payload # <<>> /\ old # <<>> THEN <<payload[1]>> \o Tail(old) ELSE payload

\* peers.set(list) as called by the 'peer-status' handler
OnPeerStatus(old, payload) == payload

\* a refresh that appends the listed peers to the ones already shown
SetPeerList_Append(old, list) == old \o list

\* peers.set(list) as called with the result of 'peer_list'
SetPeerList(old, list) == list

\* ------------------------------------------------------------- sessionStorage
Absent == <<>>                    \* getItem(SESSION_KEY) = null

\* JSON.stringify(profile)
Stringify(u) == <<"{", u, "}">>

Garbage == <<"{", "alice">>       \* a stored string cut short
JsonNull == <<"null">>            \* the JSON text of null

\* JSON.parse(stored) throws
ParseThrows(str) == ~(str = JsonNull \/ (Len(str) = 3 /\ str[1] = "{" /\ str[3] = "}"))

\* JSON.parse(stored) of a text it accepts
Parse(str) == IF str = JsonNull THEN NoUser ELSE str[2]

\* the initial value of the store: the parsed stored value if there is one
\* and it parses, else null
Restored(stored) ==
    IF stored # Absent /\ ~ParseThrows(stored) THEN Parse(stored) ELSE NoUser

\* sessionStorage after the restore: an unparsable value is removed
StorageAfterRestore(stored) ==
    IF stored # Absent /\ ParseThrows(stored) THEN Absent ELSE stored

\* a subscriber that leaves the key in place when the user is set to null
StorageAfterSet_KeepOnNull(old, v) == IF v # NoUser THEN Stringify(v) ELSE old

\* the subscriber of the persistent store: setItem(JSON.stringify(value)) for
\* a value, removeItem for null
StorageAfterSet(old, v) == IF v # NoUser THEN Stringify(v) ELSE Absent

\* ------------------------------------------------------------- initial state
\* the parts of the window outside the connect page, at rest
InitUi ==
    /\ isUserLoading = FALSE
    /\ existingUser = NoUser
    /\ formPc = "idle"
    /\ formRet = NoUser
    /\ formError = FALSE
    /\ renPc = "idle"
    /\ renRet = NoUser
    /\ heroPage = "none"
    /\ allItems = {}
    /\ heroIndex = 0
    /\ loadPc = "idle"
    /\ loadRet = [ok |-> FALSE, items |-> {}]
    /\ isPinned = FALSE
    /\ hideTimeout = Null
    /\ timers = {}
    /\ timersMade = 0
    /\ pointer = "away"
    /\ isShown = FALSE
    /\ hiddenBadly = FALSE

InitIdle(budget) ==
    /\ currentUser = NoUser
    /\ peers = <<>>
    /\ localNodeId = Null
    /\ isPeerEndpointRunning = FALSE
    /\ pageState = [i \in Pages |-> "unborn"]
    /\ pageUser = [i \in Pages |-> NoUser]
    /\ isStarting = [i \in Pages |-> TRUE]
    /\ isConnecting = [i \in Pages |-> FALSE]
    /\ unlistenPeerStatus = [i \in Pages |-> FALSE]
    /\ mountPc = [i \in Pages |-> "idle"]
    /\ mountRet = [i \in Pages |-> NoRet]
    /\ connPc = [i \in Pages |-> "idle"]
    /\ connArg = [i \in Pages |-> NoArg]
    /\ connRet = [i \in Pages |-> NoConn]
    /\ discPc = [i \in Pages |-> "idle"]
    /\ discArg = [i \in Pages |-> Null]
    /\ discRet = [i \in Pages |-> FALSE]
    /\ generatedTicket = [i \in Pages |-> NoTicket]
    /\ isGenerating = [i \in Pages |-> FALSE]
    /\ genPc = [i \in Pages |-> "idle"]
    /\ genRet = [i \in Pages |-> NoGen]
    /\ listenerActive = [i \in Pages |-> FALSE]
    /\ beState = "Idle"
    /\ beNodeId = Null
    /\ beOwner = NoUser
    /\ beBinds = 0
    /\ beRoster = {}
    /\ events = <<>>
    /\ pushesLeft = budget
    /\ beStops = 0
    /\ stopErr = FALSE
    /\ usedTickets = {}
    /\ pushDiff = NoDiff
    /\ loginStale = FALSE
    /\ discNoop = [i \in Pages |-> FALSE]
    /\ storage = Absent
    /\ InitUi

Init == InitIdle(MaxPushes)

\* ------------------------------------------------------------- session boundary
\* user-login-form / user-create-form handleSubmit, after 'verify_pin' or
\* 'create_user' resolved: currentUser.set(profile)
Login(u) ==
    /\ currentUser = NoUser
    /\ currentUser' = u
    /\ storage' = StorageAfterSet(storage, u)
    /\ loginStale' = (beState = "Running" /\ beOwner # u)
    /\ UNCHANGED <<peers, localNodeId, isPeerEndpointRunning>>
    /\ UNCHANGED <<pageVars, mountVars, connVars, discVars>>
    /\ UNCHANGED <<beIdle, beRoster, events, pushesLeft, pushDiff>>
    /\ UNCHANGED <<genVars, stopVars, usedTickets>>
    /\ UNCHANGED <<discNoop, isUserLoading, existingUser, formPc, formRet, formError, renPc, renRet, uiVars>>

\* onDestroy of instance i: calls unlistenPeerStatus when it is held
OnDestroy(i) ==
    /\ pageState' = [pageState EXCEPT ![i] = "destroyed"]
    /\ listenerActive' = [listenerActive EXCEPT ![i] =
                             IF unlistenPeerStatus[i] THEN FALSE ELSE @]

MountedPages == {i \in Pages : pageState[i] = "mounted"}

\* a logout that lowers the endpoint flag
RunningAfterLogout_Reset(old) == FALSE

\* what the logout menu item does to isPeerEndpointRunning
RunningAfterLogout(old) == old

\* logout menu item: currentUser.set(null); the layout then renders the login
\* form instead of the page, which destroys the page that is open
Logout ==
    /\ currentUser # NoUser
    /\ currentUser' = NoUser
    /\ storage' = StorageAfterSet(storage, NoUser)
    /\ IF MountedPages # {}
       THEN \E i \in MountedPages : OnDestroy(i)
       ELSE UNCHANGED <<pageState, listenerActive>>
    /\ isPeerEndpointRunning' = RunningAfterLogout(isPeerEndpointRunning)
    /\ UNCHANGED <<peers, localNodeId>>
    /\ UNCHANGED <<pageUser, isStarting, isConnecting, unlistenPeerStatus>>
    /\ UNCHANGED <<mountVars, connVars, discVars>>
    /\ loginStale' = FALSE
    /\ UNCHANGED <<beState, beNodeId, beOwner, beBinds, beRoster, events, pushesLeft, pushDiff>>
    /\ UNCHANGED <<genVars, stopVars, usedTickets>>
    /\ UNCHANGED <<discNoop, isUserLoading, existingUser, formPc, formRet, formError, renPc, renRet>>
    /\ heroPage' = "none"
    /\ allItems' = {}
    /\ heroIndex' = 0
    /\ loadPc' = "idle"
    /\ loadRet' = [ok |-> FALSE, items |-> {}]
    /\ UNCHANGED toolbarVars

\* navigation away from the connect page
Leave(i) ==
    /\ pageState[i] = "mounted"
    /\ OnDestroy(i)
    /\ UNCHANGED <<storeVars, pageUser, isStarting, isConnecting, unlistenPeerStatus>>
    /\ UNCHANGED <<mountVars, connVars, discVars>>
    /\ UNCHANGED <<beState, beNodeId, beOwner, beBinds, beRoster, events, pushesLeft, pushDiff, loginStale>>
    /\ UNCHANGED <<genVars, stopVars, usedTickets>>
    /\ UNCHANGED <<discNoop, sessVars, uiVars>>

\* ------------------------------------------------------------- onMount
\* the page is rendered for a logged-in user; onMount runs up to its first
\* await, the call of listen("peer-status", handler)
Mount(i) ==
    /\ ~isUserLoading
    /\ currentUser # NoUser
    /\ heroPage = "none"
    /\ MountedPages = {}
    /\ pageState[i] = "unborn"
    /\ \A j \in Pages : j < i => pageState[j] # "unborn"
    /\ pageState' = [pageState EXCEPT ![i] = "mounted"]
    /\ pageUser' = [pageUser EXCEPT ![i] = currentUser]
    /\ mountPc' = [mountPc EXCEPT ![i] = "listen"]
    /\ UNCHANGED <<storeVars, isStarting, isConnecting, unlistenPeerStatus, mountRet>>
    /\ UNCHANGED <<connVars, discVars, beVars>>
    /\ UNCHANGED <<genVars, stopVars, usedTickets>>
    /\ UNCHANGED <<discNoop, sessVars, uiVars>>

\* the event system registers the handler, which from here on receives
\* events; or it rejects the call (listen() is an invoke of the event plugin
\* and settles like any other call): await listen() stands outside every try
\* block, so the rejection leaves onMount at once ("thrown")
BeListen(i) ==
    /\ mountPc[i] = "listen"
    /\ \/ /\ listenerActive' = [listenerActive EXCEPT ![i] = TRUE]
          /\ mountPc' = [mountPc EXCEPT ![i] = "listenRet"]
       \/ /\ mountPc' = [mountPc EXCEPT ![i] = "thrown"]
          /\ UNCHANGED listenerActive
    /\ UNCHANGED <<storeVars, pageVars, mountRet, connVars, discVars>>
    /\ UNCHANGED <<beState, beNodeId, beOwner, beBinds, beRoster, events, pushesLeft, pushDiff, loginStale>>
    /\ UNCHANGED <<genVars, stopVars, usedTickets>>
    /\ UNCHANGED <<discNoop, sessVars, uiVars>>

\* an onMount that starts the endpoint whatever the flag says
ShouldStart_Always(running) == TRUE

\* if (!$isPeerEndpointRunning)
ShouldStart(running) == ~running

\* onMount resumes after await listen(): keeps the unlisten function and
\* branches on $isPeerEndpointRunning
ListenResolved(i) ==
    /\ mountPc[i] = "listenRet"
    /\ unlistenPeerStatus' = [unlistenPeerStatus EXCEPT ![i] = TRUE]
    /\ IF ShouldStart(isPeerEndpointRunning)
       THEN /\ mountPc' = [mountPc EXCEPT ![i] = "start"]
            /\ UNCHANGED isStarting
       ELSE /\ isStarting' = [isStarting EXCEPT ![i] = FALSE]
            /\ mountPc' = [mountPc EXCEPT ![i] = "refresh"]
    /\ UNCHANGED <<storeVars, pageState, pageUser, isConnecting, mountRet>>
    /\ UNCHANGED <<connVars, discVars, beVars>>
    /\ UNCHANGED <<genVars, stopVars, usedTickets>>
    /\ UNCHANGED <<discNoop, sessVars, uiVars>>

\* a start() that binds again although an endpoint is running
BindNeeded_Always(state) == TRUE

\* start() while already Running is a no-op that returns the existing identity
BindNeeded(state) == state # "Running"

\* start() of the endpoint lifecycle manager behind 'peer_start'
BePeerStart(i) ==
    /\ mountPc[i] = "start"
    /\ mountPc' = [mountPc EXCEPT ![i] = "startRet"]
    /\ \/ /\ ~BindNeeded(beState)
          /\ mountRet' = [mountRet EXCEPT ![i] = OkNode(beNodeId)]
          /\ UNCHANGED <<beState, beNodeId, beOwner, beBinds, beStops>>
       \/ /\ BindNeeded(beState)
          /\ beState' = "Running"
          /\ beBinds' = beBinds + 1
          /\ beNodeId' = NodeOfBind(beBinds + 1)
          /\ beOwner' = pageUser[i]
          /\ beStops' = 0
          /\ mountRet' = [mountRet EXCEPT ![i] = OkNode(NodeOfBind(beBinds + 1))]
       \/ /\ BindNeeded(beState)
          /\ beState # "Running"
          /\ beState' = "Failed"
          /\ mountRet' = [mountRet EXCEPT ![i] = NoRet]
          /\ UNCHANGED <<beNodeId, beOwner, beBinds, beStops>>
    /\ UNCHANGED <<storeVars, pageVars, connVars, discVars>>
    /\ UNCHANGED <<listenerActive, beRoster, events, pushesLeft, pushDiff, loginStale>>
    /\ UNCHANGED <<genVars, stopErr, usedTickets>>
    /\ UNCHANGED <<discNoop, sessVars, uiVars>>

\* an onMount that raises the flag whether or not 'peer_start' resolved
RunningAfterStart_Always(old, ok) == TRUE

\* isPeerEndpointRunning.set(true) is reached only when 'peer_start' resolved
RunningAfterStart(old, ok) == IF ok THEN TRUE ELSE old

\* an onMount that raises the flag and forgets the node id
NodeIdAfterStart_Keep(old, ret) == old

\* localNodeId.set(nodeId) is reached only when 'peer_start' resolved
NodeIdAfterStart(old, ret) == IF ret.ok THEN ret.node ELSE old

\* onMount resumes after await invoke("peer_start"); a rejection goes through
\* catch (warn, toast.error) and finally, which leaves onMount at "caught"
StartResolved(i) ==
    /\ mountPc[i] = "startRet"
    /\ localNodeId' = NodeIdAfterStart(localNodeId, mountRet[i])
    /\ isPeerEndpointRunning' = RunningAfterStart(isPeerEndpointRunning, mountRet[i].ok)
    /\ IF mountRet[i].ok
       THEN /\ mountPc' = [mountPc EXCEPT ![i] = "list"]
            /\ UNCHANGED isStarting
       ELSE /\ isStarting' = [isStarting EXCEPT ![i] = FALSE]
            /\ mountPc' = [mountPc EXCEPT ![i] = "caught"]
    /\ UNCHANGED <<currentUser, peers, pageState, pageUser, isConnecting>>
    /\ mountRet' = [mountRet EXCEPT ![i] = NoRet]
    /\ UNCHANGED <<unlistenPeerStatus, connVars, discVars, beVars>>
    /\ UNCHANGED <<genVars, stopVars, usedTickets>>
    /\ UNCHANGED <<discNoop, sessVars, uiVars>>

\* list() of the roster behind 'peer_list'; the call can reject
BePeerList(i) ==
    /\ mountPc[i] \in {"list", "refresh"}
    /\ mountPc' = [mountPc EXCEPT ![i] = IF @ = "list" THEN "listRet" ELSE "refreshRet"]
    /\ \/ /\ beState = "Running"
          /\ mountRet' = [mountRet EXCEPT ![i] = OkList(SortedList(beRoster))]
       \/ mountRet' = [mountRet EXCEPT ![i] = NoRet]
    /\ UNCHANGED <<storeVars, pageVars, connVars, discVars, beVars>>
    /\ UNCHANGED <<genVars, stopVars, usedTickets>>
    /\ UNCHANGED <<discNoop, sessVars, uiVars>>

\* onMount resumes after await invoke("peer_list"), in either branch; in the
\* start branch a rejection is caught with the same catch as 'peer_start'
ListResolved(i) ==
    /\ mountPc[i] \in {"listRet", "refreshRet"}
    /\ peers' = IF mountRet[i].ok THEN SetPeerList(peers, mountRet[i].list) ELSE peers
    /\ isStarting' = [isStarting EXCEPT ![i] = FALSE]
    /\ mountPc' = [mountPc EXCEPT ![i] =
                      IF mountPc[i] = "listRet" /\ ~mountRet[i].ok THEN "caught" ELSE "done"]
    /\ UNCHANGED <<currentUser, localNodeId, isPeerEndpointRunning>>
    /\ mountRet' = [mountRet EXCEPT ![i] = NoRet]
    /\ UNCHANGED <<pageState, pageUser, isConnecting, unlistenPeerStatus>>
    /\ UNCHANGED <<connVars, discVars, beVars>>
    /\ UNCHANGED <<genVars, stopVars, usedTickets>>
    /\ UNCHANGED <<discNoop, sessVars, uiVars>>

\* ------------------------------------------------------------- 'peer-status'
AnyListener == \E i \in Pages : listenerActive[i]

\* the push subscription: the backend emits the full roster whenever
\* membership or liveness changes
Emit(roster) == Append(events, SortedList(roster))

CanEmit == pushesLeft > 0

\* an event loop that delivers no event while a call is awaited
ListenerBlocked_ByCall ==
    \E i \in Pages :
        \/ mountPc[i] \in {"start", "list", "refresh"}
        \/ connPc[i] = "sent"
        \/ discPc[i] = "sent"

\* await invoke(...) suspends only the function that awaits: the handler is
\* called whatever call is pending
ListenerBlocked == FALSE

\* the handler registered by onMount: peers.set(event.payload.peers)
PeerStatusHandler ==
    /\ events # <<>>
    /\ AnyListener
    /\ ~ListenerBlocked
    /\ peers' = OnPeerStatus(peers, Head(events))
    /\ events' = Tail(events)
    /\ pushDiff' = [removed |-> Ids(peers) \ Ids(Head(events)) # {},
                    added |-> Ids(Head(events)) \ Ids(peers) # {}]
    /\ UNCHANGED <<currentUser, localNodeId, isPeerEndpointRunning>>
    /\ UNCHANGED <<pageVars, mountVars, connVars, discVars>>
    /\ UNCHANGED <<beIdle, beRoster, pushesLeft, loginStale>>
    /\ UNCHANGED <<genVars, stopVars, usedTickets>>
    /\ UNCHANGED <<discNoop, sessVars, uiVars>>

\* an event that finds no handler registered is dropped
DropEvent ==
    /\ events # <<>>
    /\ ~AnyListener
    /\ events' = Tail(events)
    /\ UNCHANGED <<storeVars, pageVars, mountVars, connVars, discVars>>
    /\ UNCHANGED <<beIdle, beRoster, pushesLeft, pushDiff, loginStale>>
    /\ UNCHANGED <<genVars, stopVars, usedTickets>>
    /\ UNCHANGED <<discNoop, sessVars, uiVars>>

\* the transport reports a change of liveness of a connected peer
BeLiveness(id) ==
    /\ beState = "Running"
    /\ CanEmit
    /\ \E r \in beRoster :
          /\ r.node_id = id
          /\ beRoster' = Upsert(beRoster, [r EXCEPT !.online = ~r.online])
    /\ events' = Emit(beRoster')
    /\ pushesLeft' = pushesLeft - 1
    /\ UNCHANGED <<storeVars, pageVars, mountVars, connVars, discVars>>
    /\ UNCHANGED <<beIdle, pushDiff, loginStale>>
    /\ UNCHANGED <<genVars, stopVars, usedTickets>>
    /\ UNCHANGED <<discNoop, sessVars, uiVars>>

\* ------------------------------------------------------------- connectToPeer
\* remoteUsername.trim() || "Unknown"
Username(typed) == IF typed = "" THEN "Unknown" ELSE typed

\* !remoteTicket.trim()
Blank(ticket) == ticket = NoTicket

\* disabled={isConnecting || !remoteTicket.trim()} of the join button
JoinDisabled(connecting, ticket) == connecting \/ Blank(ticket)

\* the join button: connectToPeer up to its await of invoke("peer_connect");
\* with a blank ticket it returns at once
ConnectToPeer(i, ticket, typed) ==
    /\ pageState[i] = "mounted"
    /\ ~isStarting[i]
    /\ ~JoinDisabled(isConnecting[i], ticket)
    /\ ~Blank(ticket)
    /\ connPc[i] \in {"idle", "done"}
    /\ isConnecting' = [isConnecting EXCEPT ![i] = TRUE]
    /\ connPc' = [connPc EXCEPT ![i] = "sent"]
    /\ connArg' = [connArg EXCEPT ![i] = [ticket |-> ticket, username |-> Username(typed)]]
    /\ connRet' = [connRet EXCEPT ![i] = NoConn]
    /\ UNCHANGED <<storeVars, pageState, pageUser, isStarting, unlistenPeerStatus>>
    /\ UNCHANGED <<mountVars, discVars, beVars>>
    /\ UNCHANGED <<genVars, stopVars, usedTickets>>
    /\ UNCHANGED <<discNoop, sessVars, uiVars>>

\* a connect that accepts a ticket once
TicketFresh_SingleUse(used, t) == t \notin used

\* tickets are stateless and reusable: connect never looks at earlier uses
TicketFresh(used, t) == TRUE

\* connect(ticket_str, display_name) behind 'peer_connect'
BePeerConnect(i) ==
    /\ connPc[i] = "sent"
    /\ connPc' = [connPc EXCEPT ![i] = "ret"]
    /\ LET id == Decode(connArg[i].ticket)
           rec == [node_id |-> id, username |-> connArg[i].username, online |-> TRUE]
       IN \/ /\ beState # "Running"
             /\ connRet' = [connRet EXCEPT ![i] = ConnErr("NotRunning")]
             /\ UNCHANGED <<beRoster, events, pushesLeft, usedTickets>>
          \/ /\ beState = "Running"
             /\ id = Null
             /\ connRet' = [connRet EXCEPT ![i] = ConnErr("MalformedTicket")]
             /\ UNCHANGED <<beRoster, events, pushesLeft, usedTickets>>
          \/ /\ beState = "Running"
             /\ id # Null
             /\ connRet' = [connRet EXCEPT ![i] =
                    ConnErr(IF TicketFresh(usedTickets, connArg[i].ticket)
                            THEN "Unreachable" ELSE "TicketUsed")]
             /\ UNCHANGED <<beRoster, events, pushesLeft, usedTickets>>
          \/ /\ beState = "Running"
             /\ id # Null
             /\ TicketFresh(usedTickets, connArg[i].ticket)
             /\ CanEmit
             /\ beRoster' = Upsert(beRoster, rec)
             /\ events' = Emit(beRoster')
             /\ pushesLeft' = pushesLeft - 1
             /\ connRet' = [connRet EXCEPT ![i] = [ok |-> TRUE, err |-> "", peer |-> rec]]
             /\ usedTickets' = usedTickets \cup {connArg[i].ticket}
    /\ connArg' = [connArg EXCEPT ![i] = NoArg]
    /\ UNCHANGED <<storeVars, pageVars, mountVars, discVars>>
    /\ UNCHANGED <<beIdle, pushDiff, loginStale>>
    /\ UNCHANGED <<genVars, stopVars>>
    /\ UNCHANGED <<discNoop, sessVars, uiVars>>

\* a catch block that empties the list when the call was rejected
ConnectSettled_ClearOnError(old, ret) == IF ret.ok THEN old ELSE <<>>

\* what connectToPeer does to the peers store once 'peer_connect' settled
ConnectSettled(old, ret) == old

\* connectToPeer resumes after the await: try / catch / finally
ConnectResolved(i) ==
    /\ connPc[i] = "ret"
    /\ peers' = ConnectSettled(peers, connRet[i])
    /\ isConnecting' = [isConnecting EXCEPT ![i] = FALSE]
    /\ connPc' = [connPc EXCEPT ![i] = "done"]
    /\ UNCHANGED <<currentUser, localNodeId, isPeerEndpointRunning>>
    /\ UNCHANGED <<pageState, pageUser, isStarting, unlistenPeerStatus>>
    /\ UNCHANGED <<connArg, connRet, mountVars, discVars, beVars>>
    /\ UNCHANGED <<genVars, stopVars, usedTickets>>
    /\ UNCHANGED <<discNoop, sessVars, uiVars>>

\* ------------------------------------------------------------- disconnectPeer
\* the disconnect button of a listed peer: up to invoke("peer_disconnect")
DisconnectPeer(i, nodeId) ==
    /\ pageState[i] = "mounted"
    /\ ~isStarting[i]
    /\ nodeId \in Ids(peers)
    /\ discPc[i] \in {"idle", "done"}
    /\ discPc' = [discPc EXCEPT ![i] = "sent"]
    /\ discArg' = [discArg EXCEPT ![i] = nodeId]
    /\ discRet' = [discRet EXCEPT ![i] = FALSE]
    /\ UNCHANGED <<storeVars, pageVars, mountVars, connVars, beVars>>
    /\ UNCHANGED <<genVars, stopVars, usedTickets>>
    /\ UNCHANGED <<discNoop, sessVars, uiVars>>

\* a remove() that reports an identity it does not find as an error
AbsentOk_Strict(S, id) == \E r \in S : r.node_id = id

\* remove(identity) of an absent identity is a no-op, not an error
AbsentOk(S, id) == TRUE

\* disconnect(identity) behind 'peer_disconnect': the entry is removed whether
\* or not the transport teardown reports an error
BePeerDisconnect(i) ==
    /\ discPc[i] = "sent"
    /\ discPc' = [discPc EXCEPT ![i] = "ret"]
    /\ \/ /\ beState = "Running"
          /\ beRoster' = Remove(beRoster, discArg[i])
          /\ IF beRoster' # beRoster
             THEN /\ CanEmit
                  /\ events' = Emit(beRoster')
                  /\ pushesLeft' = pushesLeft - 1
             ELSE UNCHANGED <<events, pushesLeft>>
          /\ \E ok \in BOOLEAN :
                /\ ok => AbsentOk(beRoster, discArg[i])
                /\ discRet' = [discRet EXCEPT ![i] = ok]
          /\ discNoop' = [discNoop EXCEPT ![i] = \A r \in beRoster : r.node_id # discArg[i]]
       \/ /\ beState # "Running"
          /\ discRet' = [discRet EXCEPT ![i] = FALSE]
          /\ UNCHANGED <<beRoster, events, pushesLeft, discNoop>>
    /\ UNCHANGED <<storeVars, pageVars, mountVars, connVars, discArg>>
    /\ UNCHANGED <<beIdle, pushDiff, loginStale>>
    /\ UNCHANGED <<genVars, stopVars, usedTickets>>
    /\ UNCHANGED <<sessVars, uiVars>>

\* what disconnectPeer does to the peers store once 'peer_disconnect' settled
DisconnectSettled(old, nodeId, ok) == old

\* disconnectPeer resumes after the await: try / catch
DisconnectResolved(i) ==
    /\ discPc[i] = "ret"
    /\ peers' = DisconnectSettled(peers, discArg[i], discRet[i])
    /\ discPc' = [discPc EXCEPT ![i] = "done"]
    /\ discNoop' = [discNoop EXCEPT ![i] = FALSE]
    /\ UNCHANGED <<currentUser, localNodeId, isPeerEndpointRunning>>
    /\ UNCHANGED <<pageVars, mountVars, connVars, discArg, discRet, beVars>>
    /\ UNCHANGED <<genVars, stopVars, usedTickets>>
    /\ UNCHANGED <<sessVars, uiVars>>

\* ------------------------------------------------------------- generateTicket
\* a generate_ticket() that answers in any session state
TicketAllowed_Always(state) == TRUE

\* generate_ticket() requires SessionState == Running
TicketAllowed(state) == state = "Running"

\* the generate button: generateTicket up to its await of
\* invoke("peer_generate_ticket")
GenerateTicket(i) ==
    /\ pageState[i] = "mounted"
    /\ ~isStarting[i]
    /\ ~isGenerating[i]
    /\ genPc[i] \in {"idle", "done", "caught"}
    /\ isGenerating' = [isGenerating EXCEPT ![i] = TRUE]
    /\ genPc' = [genPc EXCEPT ![i] = "sent"]
    /\ UNCHANGED <<generatedTicket, genRet>>
    /\ UNCHANGED <<storeVars, pageVars, mountVars, connVars, discVars, beVars>>
    /\ UNCHANGED <<stopVars, usedTickets>>
    /\ UNCHANGED <<discNoop, sessVars, uiVars>>

\* generate_ticket() behind 'peer_generate_ticket': reads the identity and the
\* local reachability hints and encodes them; NotRunning when not Running
BeGenerateTicket(i) ==
    /\ genPc[i] = "sent"
    /\ genPc' = [genPc EXCEPT ![i] = "ret"]
    /\ IF TicketAllowed(beState)
       THEN \E h \in Hints :
               genRet' = [genRet EXCEPT ![i] = [ok |-> TRUE, ticket |-> Encode(beNodeId, h)]]
       ELSE genRet' = [genRet EXCEPT ![i] = NoGen]
    /\ UNCHANGED <<generatedTicket, isGenerating>>
    /\ UNCHANGED <<storeVars, pageVars, mountVars, connVars, discVars, beVars>>
    /\ UNCHANGED <<stopVars, usedTickets>>
    /\ UNCHANGED <<discNoop, sessVars, uiVars>>

\* a generateTicket that takes a ticket as proof of a running endpoint
RunningAfterGenerate_Set(old, ok) == old \/ ok

\* what generateTicket does to isPeerEndpointRunning once the call settled
RunningAfterGenerate(old, ok) == old

\* generateTicket resumes after the await: generatedTicket = ticket, or catch
\* (warn, toast.error), then finally
GenerateResolved(i) ==
    /\ genPc[i] = "ret"
    /\ generatedTicket' = [generatedTicket EXCEPT ![i] =
                               IF genRet[i].ok THEN genRet[i].ticket ELSE @]
    /\ isGenerating' = [isGenerating EXCEPT ![i] = FALSE]
    /\ genPc' = [genPc EXCEPT ![i] = IF genRet[i].ok THEN "done" ELSE "caught"]
    /\ genRet' = [genRet EXCEPT ![i] = NoGen]
    /\ isPeerEndpointRunning' = RunningAfterGenerate(isPeerEndpointRunning, genRet[i].ok)
    /\ UNCHANGED <<currentUser, peers, localNodeId>>
    /\ UNCHANGED <<pageVars, mountVars, connVars, discVars, beVars>>
    /\ UNCHANGED <<stopVars, usedTickets>>
    /\ UNCHANGED <<discNoop, sessVars, uiVars>>

\* ------------------------------------------------------------- stop
\* a stop() that reports an error when there is nothing to stop
StopFails_WhenIdle(state) == state # "Running"

\* stop() never surfaces an error: a failed release is only logged
StopFails(state) == FALSE

CanStop == beStops < MaxStops

\* stop() of the endpoint lifecycle manager: Running -> Idle, and a no-op on
\* a manager that is not Running
BePeerStop ==
    /\ CanStop
    /\ beStops' = beStops + 1
    /\ stopErr' = (stopErr \/ StopFails(beState))
    /\ beState' = "Idle"
    /\ beNodeId' = Null
    /\ UNCHANGED <<storeVars, pageVars, mountVars, connVars, discVars, genVars>>
    /\ UNCHANGED <<listenerActive, beOwner, beBinds, beRoster, events, pushesLeft>>
    /\ UNCHANGED <<pushDiff, loginStale, usedTickets>>
    /\ UNCHANGED <<discNoop, sessVars, uiVars>>

\* ------------------------------------------------------------- session forms
\* what can be typed into the PIN cells and into the username field
PinInputs == {<<1, 2, 3>>, <<1, 2, 3, 4>>}
UsernameInputs == {<<>>, <<" ">>, <<"a", "!">>, <<"a">>, <<"a", "-", "b">>}
UsernameChars == {"a", "b", "0", "-", "_"}     \* /^[a-zA-Z0-9\-_]+$/

\* validatePin / the PIN test of the login form: value.length === 4
ValidatePin(pin) == Len(pin) = 4

\* validateUsername: not blank, and matching USERNAME_REGEX
ValidateUsername(value) ==
    /\ \E k \in 1..Len(value) : value[k] # " "
    /\ \A k \in 1..Len(value) : value[k] \in UsernameChars

\* the window (re)loads: the stores are created anew, currentUser from
\* sessionStorage with its subscriber run once on the initial value; every
\* component and every pending continuation of the old window is gone; the
\* backend keeps running
Reload ==
    /\ currentUser' = Restored(storage)
    /\ storage' = StorageAfterSet(StorageAfterRestore(storage), Restored(storage))
    /\ isUserLoading' = TRUE
    /\ existingUser' = NoUser
    /\ formPc' = "idle"
    /\ formRet' = NoUser
    /\ formError' = FALSE
    /\ renPc' = "idle"
    /\ renRet' = NoUser
    /\ peers' = <<>>
    /\ localNodeId' = Null
    /\ isPeerEndpointRunning' = FALSE
    /\ pageState' = [i \in Pages |-> IF pageState[i] = "mounted" THEN "destroyed" ELSE pageState[i]]
    /\ listenerActive' = [i \in Pages |-> FALSE]
    /\ mountPc' = [i \in Pages |-> IF pageState[i] = "unborn" THEN mountPc[i] ELSE "gone"]
    /\ connPc' = [i \in Pages |-> IF pageState[i] = "unborn" THEN connPc[i] ELSE "gone"]
    /\ discPc' = [i \in Pages |-> IF pageState[i] = "unborn" THEN discPc[i] ELSE "gone"]
    /\ genPc' = [i \in Pages |-> IF pageState[i] = "unborn" THEN genPc[i] ELSE "gone"]
    /\ heroPage' = "none"
    /\ allItems' = {}
    /\ heroIndex' = 0
    /\ loadPc' = "idle"
    /\ loadRet' = [ok |-> FALSE, items |-> {}]
    /\ hideTimeout' = Null
    /\ timers' = {}
    /\ isShown' = isPinned
    /\ UNCHANGED <<isPinned, timersMade, pointer, hiddenBadly>>
    /\ UNCHANGED <<pageUser, isStarting, isConnecting, unlistenPeerStatus, mountRet>>
    /\ UNCHANGED <<connArg, connRet, discArg, discRet, generatedTicket, isGenerating, genRet>>
    /\ UNCHANGED <<beState, beNodeId, beOwner, beBinds, beRoster, events, pushesLeft>>
    /\ UNCHANGED <<pushDiff, loginStale, stopVars, usedTickets, discNoop>>

\* something other than the store leaves a value under the key
Tamper(str) ==
    /\ storage # str
    /\ storage' = str
    /\ UNCHANGED <<currentUser, peerVars, uiVars>>
    /\ UNCHANGED <<isUserLoading, existingUser, formPc, formRet, formError, renPc, renRet>>

\* onMount of the layout once 'check_user_exists' settled: existingUser on
\* success, and isUserLoading.set(false) in either case
LayoutMounted(found) ==
    /\ isUserLoading
    /\ isUserLoading' = FALSE
    /\ existingUser' = found
    /\ UNCHANGED <<currentUser, peerVars, uiVars>>
    /\ UNCHANGED <<storage, formPc, formRet, formError, renPc, renRet>>

\* handleSubmit of the login form, shown for existingUser: up to its await of
\* invoke("verify_pin"), or to the return on an incomplete PIN
SubmitLogin(pin) ==
    /\ ~isUserLoading
    /\ currentUser = NoUser
    /\ existingUser # NoUser
    /\ formPc = "idle"
    /\ IF ValidatePin(pin)
       THEN /\ formError' = FALSE
            /\ formPc' = "verify_pin"
       ELSE /\ formError' = TRUE
            /\ UNCHANGED formPc
    /\ UNCHANGED <<currentUser, peerVars, uiVars>>
    /\ UNCHANGED <<storage, isUserLoading, existingUser, formRet, renPc, renRet>>

\* handleSubmit of the create form, shown when there is no existingUser: both
\* validations run, then invoke("create_user") if both passed
SubmitCreate(name, pin) ==
    /\ ~isUserLoading
    /\ currentUser = NoUser
    /\ existingUser = NoUser
    /\ formPc = "idle"
    /\ IF ValidateUsername(name) /\ ValidatePin(pin)
       THEN /\ formError' = FALSE
            /\ formPc' = "create_user"
       ELSE /\ formError' = TRUE
            /\ UNCHANGED formPc
    /\ UNCHANGED <<currentUser, peerVars, uiVars>>
    /\ UNCHANGED <<storage, isUserLoading, existingUser, formRet, renPc, renRet>>

\* 'verify_pin' / 'create_user': answers with the profile or rejects
BeAuth ==
    /\ formPc \in {"verify_pin", "create_user"}
    /\ formPc' = "ret"
    /\ \/ formRet' = NoUser
       \/ /\ formPc = "verify_pin"
          /\ formRet' = existingUser
       \/ /\ formPc = "create_user"
          /\ \E u \in Users : formRet' = u
    /\ UNCHANGED <<currentUser, peerVars, uiVars>>
    /\ UNCHANGED <<storage, isUserLoading, existingUser, formError, renPc, renRet>>

\* handleSubmit resumes: currentUser.set(profile), or the catch block
FormResolved ==
    /\ formPc = "ret"
    /\ formPc' = "idle"
    /\ formRet' = NoUser
    /\ IF formRet # NoUser
       THEN /\ currentUser' = formRet
            /\ storage' = StorageAfterSet(storage, formRet)
            /\ UNCHANGED formError
       ELSE /\ formError' = TRUE
            /\ UNCHANGED <<currentUser, storage>>
    /\ UNCHANGED <<peerVars, uiVars>>
    /\ UNCHANGED <<isUserLoading, existingUser, renPc, renRet>>

\* updateUsername of the account page, called with the confirmed PIN: reads
\* $currentUser?.id and awaits invoke("update_username")
UpdateUsername ==
    /\ ~isUserLoading
    /\ currentUser # NoUser
    /\ renPc = "idle"
    /\ renPc' = "sent"
    /\ renRet' = currentUser
    /\ UNCHANGED <<currentUser, peerVars, uiVars>>
    /\ UNCHANGED <<storage, isUserLoading, existingUser, formPc, formRet, formError>>

\* 'update_username': answers with the updated profile of that user or rejects
BeUpdateUsername ==
    /\ renPc = "sent"
    /\ renPc' = "ret"
    /\ \E ok \in BOOLEAN : renRet' = IF ok THEN renRet ELSE NoUser
    /\ UNCHANGED <<currentUser, peerVars, uiVars>>
    /\ UNCHANGED <<storage, isUserLoading, existingUser, formPc, formRet, formError>>

\* updateUsername resumes: currentUser.set(updated profile), or the catch
RenameResolved ==
    /\ renPc = "ret"
    /\ renPc' = "idle"
    /\ renRet' = NoUser
    /\ IF renRet # NoUser
       THEN /\ currentUser' = renRet
            /\ storage' = StorageAfterSet(storage, renRet)
       ELSE UNCHANGED <<currentUser, storage>>
    /\ UNCHANGED <<peerVars, uiVars>>
    /\ UNCHANGED <<isUserLoading, existingUser, formPc, formRet, formError>>

\* ------------------------------------------------------------- series / movies
HeroPages == {"series", "movies"}
HeroCount == 5                    \* getBestRated(items, count = 5)

\* the entries a library can hold: rating 0 stands for a missing rating
LibItems ==
    {[id |-> 1, media_type |-> "tv", rating |-> 9, backdrop |-> TRUE],
     [id |-> 2, media_type |-> "tv", rating |-> 8, backdrop |-> TRUE],
     [id |-> 3, media_type |-> "tv", rating |-> 0, backdrop |-> TRUE],
     [id |-> 4, media_type |-> "movie", rating |-> 9, backdrop |-> TRUE],
     [id |-> 5, media_type |-> "movie", rating |-> 7, backdrop |-> TRUE],
     [id |-> 6, media_type |-> "movie", rating |-> 8, backdrop |-> FALSE]}

NoLib == [ok |-> FALSE, items |-> {}]

\* library.filter(isTvShow) / library.filter(isMovie)
OfPage(p, items) ==
    {x \in items : x.media_type = IF p = "series" THEN "tv" ELSE "movie"}

\* sort by rating, best first
RECURSIVE ByRating(_)
ByRating(S) ==
    IF S = {} THEN <<>>
    ELSE LET x == CHOOSE y \in S : \A z \in S : y.rating > z.rating \/ (y.rating = z.rating /\ y.id <= z.id)
         IN <<x>> \o ByRating(S \ {x})

\* getBestRated: entries with a rating and a backdrop, best first, at most count
GetBestRated(items) ==
    LET sorted == ByRating({x \in items : x.rating # 0 /\ x.backdrop})
    IN SubSeq(sorted, 1, IF Len(sorted) < HeroCount THEN Len(sorted) ELSE HeroCount)

\* $derived heroItems
HeroItems == GetBestRated(allItems)

\* $derived featuredSeries / featuredMovie: heroItems[heroIndex] ?? null
Featured == IF heroIndex < Len(HeroItems) THEN HeroItems[heroIndex + 1] ELSE NoLib

\* the page is opened: onMount calls loadSeries / loadMovies, which awaits
\* invoke("get_library_with_metadata")
HeroOpen(p) ==
    /\ ~isUserLoading
    /\ currentUser # NoUser
    /\ MountedPages = {}
    /\ heroPage = "none"
    /\ heroPage' = p
    /\ allItems' = {}
    /\ heroIndex' = 0
    /\ loadPc' = "sent"
    /\ loadRet' = NoLib
    /\ UNCHANGED <<currentUser, peerVars, sessVars, toolbarVars>>

\* navigation away: the component and its state are dropped
HeroClose ==
    /\ heroPage # "none"
    /\ heroPage' = "none"
    /\ allItems' = {}
    /\ heroIndex' = 0
    /\ loadPc' = "idle"
    /\ loadRet' = NoLib
    /\ UNCHANGED <<currentUser, peerVars, sessVars, toolbarVars>>

\* a 'media-change' event: the listener calls loadSeries / loadMovies again
MediaChange ==
    /\ heroPage # "none"
    /\ currentUser # NoUser
    /\ loadPc = "idle"
    /\ loadPc' = "sent"
    /\ UNCHANGED <<heroPage, allItems, heroIndex, loadRet>>
    /\ UNCHANGED <<currentUser, peerVars, sessVars, toolbarVars>>

\* 'get_library_with_metadata': answers with the library as it is now, or
\* rejects
BeLibrary ==
    /\ loadPc = "sent"
    /\ loadPc' = "ret"
    /\ \/ \E lib \in SUBSET LibItems : loadRet' = [ok |-> TRUE, items |-> lib]
       \/ loadRet' = NoLib
    /\ UNCHANGED <<heroPage, allItems, heroIndex>>
    /\ UNCHANGED <<currentUser, peerVars, sessVars, toolbarVars>>

\* loadSeries / loadMovies resumes: allSeries = library.filter(isTvShow), or
\* the catch block
LibraryResolved ==
    /\ loadPc = "ret"
    /\ loadPc' = "idle"
    /\ loadRet' = NoLib
    /\ allItems' = IF loadRet.ok THEN OfPage(heroPage, loadRet.items) ELSE allItems
    /\ UNCHANGED <<heroPage, heroIndex>>
    /\ UNCHANGED <<currentUser, peerVars, sessVars, toolbarVars>>

\* the 8-second interval: rotates when there is more than one hero item
HeroTick ==
    /\ heroPage # "none"
    /\ Len(HeroItems) > 1
    /\ heroIndex' = (heroIndex + 1) % Len(HeroItems)
    /\ UNCHANGED <<heroPage, allItems, loadPc, loadRet>>
    /\ UNCHANGED <<currentUser, peerVars, sessVars, toolbarVars>>

\* a click on slide dot k; the dots are rendered inside {#if featured...} and
\* only for more than one hero item
HeroDot(k) ==
    /\ heroPage # "none"
    /\ Featured # NoLib
    /\ Len(HeroItems) > 1
    /\ k < Len(HeroItems)
    /\ heroIndex' = k
    /\ UNCHANGED <<heroPage, allItems, loadPc, loadRet>>
    /\ UNCHANGED <<currentUser, peerVars, sessVars, toolbarVars>>

\* ------------------------------------------------------------- dev toolbar
\* clearHideTimeout: clears the timer hideTimeout names, if any
TimersAfterClear == IF hideTimeout # Null THEN timers \ {hideTimeout} ELSE timers

\* handleMouseEnter: clearHideTimeout(); show()
HandleMouseEnter ==
    /\ timers' = TimersAfterClear
    /\ hideTimeout' = Null
    /\ isShown' = TRUE
    /\ UNCHANGED timersMade

\* handleMouseLeave: nothing when pinned, else hideTimeout = setTimeout(hide,
\* hoverDelay)
HandleMouseLeave(pinned) ==
    IF pinned
    THEN UNCHANGED <<timers, hideTimeout, timersMade, isShown>>
    ELSE /\ timersMade < MaxTimers
         /\ timersMade' = timersMade + 1
         /\ hideTimeout' = timersMade + 1
         /\ timers' = timers \cup {timersMade + 1}
         /\ UNCHANGED isShown

\* the pointer enters the bar (onmouseenter of the bar)
EnterBar ==
    /\ pointer # "bar"
    /\ pointer' = "bar"
    /\ HandleMouseEnter
    /\ UNCHANGED <<isPinned, hiddenBadly>>
    /\ UNCHANGED <<currentUser, peerVars, sessVars, heroVars>>

\* the pointer enters a hitbox next to the bar (onmouseenter of a hitbox)
EnterHitbox ==
    /\ pointer = "away"
    /\ pointer' = "hitbox"
    /\ HandleMouseEnter
    /\ UNCHANGED <<isPinned, hiddenBadly>>
    /\ UNCHANGED <<currentUser, peerVars, sessVars, heroVars>>

\* the pointer leaves the bar (onmouseleave of the bar)
LeaveBar ==
    /\ pointer = "bar"
    /\ pointer' = "away"
    /\ HandleMouseLeave(isPinned)
    /\ UNCHANGED <<isPinned, hiddenBadly>>
    /\ UNCHANGED <<currentUser, peerVars, sessVars, heroVars>>

\* the pointer leaves a hitbox, which has no onmouseleave
LeaveHitbox ==
    /\ pointer = "hitbox"
    /\ pointer' = "away"
    /\ UNCHANGED <<isPinned, hideTimeout, timers, timersMade, isShown, hiddenBadly>>
    /\ UNCHANGED <<currentUser, peerVars, sessVars, heroVars>>

\* a click on the pin button, which lies in the bar: togglePinned
TogglePinned ==
    /\ pointer = "bar"
    /\ isPinned' = ~isPinned
    /\ IF isPinned'
       THEN HandleMouseEnter
       ELSE HandleMouseLeave(isPinned')
    /\ UNCHANGED <<pointer, hiddenBadly>>
    /\ UNCHANGED <<currentUser, peerVars, sessVars, heroVars>>

\* a pending timer expires: hide()
TimerFires(t) ==
    /\ t \in timers
    /\ timers' = timers \ {t}
    /\ isShown' = FALSE
    /\ hiddenBadly' = (hiddenBadly \/ isPinned \/ pointer # "away")
    /\ UNCHANGED <<isPinned, hideTimeout, timersMade, pointer>>
    /\ UNCHANGED <<currentUser, peerVars, sessVars, heroVars>>

\* ------------------------------------------------------------- specification
NextRoster ==
    \/ \E i \in Pages : Leave(i)
    \/ PeerStatusHandler
    \/ DropEvent
    \/ \E id \in NodeIds : BeLiveness(id)
    \/ \E i \in Pages, t \in TicketInputs, n \in NameInputs : ConnectToPeer(i, t, n)
    \/ \E i \in Pages : BePeerConnect(i)
    \/ \E i \in Pages : ConnectResolved(i)
    \/ \E i \in Pages, id \in NodeIds : DisconnectPeer(i, id)
    \/ \E i \in Pages : BePeerDisconnect(i)
    \/ \E i \in Pages : DisconnectResolved(i)

NextSession ==
    \/ \E u \in Users : Login(u)
    \/ Logout
    \/ \E i \in Pages : Mount(i)
    \/ \E i \in Pages : BeListen(i)
    \/ \E i \in Pages : ListenResolved(i)
    \/ \E i \in Pages : BePeerStart(i)
    \/ \E i \in Pages : StartResolved(i)
    \/ \E i \in Pages : BePeerList(i)
    \/ \E i \in Pages : ListResolved(i)

Next == NextSession \/ NextRoster

Spec == Init /\ [][Next]_vars

\* login, logout, opening and leaving the connect page; no peer is joined
NextLifecycle ==
    \/ NextSession
    \/ \E i \in Pages : Leave(i)

SpecSession == Init /\ [][NextLifecycle]_vars

\* every call of onMount settles and every settled await resumes
FairMount ==
    \A i \in Pages :
        /\ WF_vars(BeListen(i))
        /\ WF_vars(ListenResolved(i))
        /\ WF_vars(BePeerStart(i))
        /\ WF_vars(StartResolved(i))
        /\ WF_vars(BePeerList(i))
        /\ WF_vars(ListResolved(i))

SpecSessionLive == SpecSession /\ FairMount

\* joining and disconnecting one peer, with a ticket or with a string that is
\* no ticket, and the pushes this causes
NextJoin ==
    \/ PeerStatusHandler
    \/ DropEvent
    \/ \E i \in Pages, t \in {Encode(1, 7), BadTicket, NoTicket} : ConnectToPeer(i, t, "x")
    \/ \E i \in Pages : BePeerConnect(i)
    \/ \E i \in Pages : ConnectResolved(i)
    \/ \E i \in Pages, id \in NodeIds : DisconnectPeer(i, id)
    \/ \E i \in Pages : BePeerDisconnect(i)
    \/ \E i \in Pages : DisconnectResolved(i)

\* the whole life of the stores: sessions, page instances, joins, disconnects
SpecMonotone == InitIdle(MonotonePushes) /\ [][NextLifecycle \/ NextJoin]_vars

\* the state after alice logged in, opened the connect page and its onMount
\* ran to completion with a successful 'peer_start'
InitRunning(budget) ==
    /\ currentUser = "alice"
    /\ peers = <<>>
    /\ localNodeId = NodeOfBind(1)
    /\ isPeerEndpointRunning = TRUE
    /\ pageState = [i \in Pages |-> IF i = 1 THEN "mounted" ELSE "unborn"]
    /\ pageUser = [i \in Pages |-> IF i = 1 THEN "alice" ELSE NoUser]
    /\ isStarting = [i \in Pages |-> i # 1]
    /\ isConnecting = [i \in Pages |-> FALSE]
    /\ unlistenPeerStatus = [i \in Pages |-> i = 1]
    /\ mountPc = [i \in Pages |-> IF i = 1 THEN "done" ELSE "idle"]
    /\ mountRet = [i \in Pages |-> NoRet]
    /\ connPc = [i \in Pages |-> "idle"]
    /\ connArg = [i \in Pages |-> NoArg]
    /\ connRet = [i \in Pages |-> NoConn]
    /\ discPc = [i \in Pages |-> "idle"]
    /\ discArg = [i \in Pages |-> Null]
    /\ discRet = [i \in Pages |-> FALSE]
    /\ generatedTicket = [i \in Pages |-> NoTicket]
    /\ isGenerating = [i \in Pages |-> FALSE]
    /\ genPc = [i \in Pages |-> "idle"]
    /\ genRet = [i \in Pages |-> NoGen]
    /\ listenerActive = [i \in Pages |-> i = 1]
    /\ beState = "Running"
    /\ beNodeId = NodeOfBind(1)
    /\ beOwner = "alice"
    /\ beBinds = 1
    /\ beRoster = {}
    /\ events = <<>>
    /\ pushesLeft = budget
    /\ beStops = 0
    /\ stopErr = FALSE
    /\ usedTickets = {}
    /\ pushDiff = NoDiff
    /\ loginStale = FALSE
    /\ discNoop = [i \in Pages |-> FALSE]
    /\ storage = StorageAfterSet(Absent, "alice")
    /\ InitUi

\* the connect page stays the one instance: join, disconnect, liveness, pushes
InitRoster == InitRunning(RosterPushes)

SpecRoster == InitRoster /\ [][NextRoster]_vars

\* as SpecRoster, and the page can be left and opened again (peer_list refresh)
NextRefresh ==
    \/ NextRoster
    \/ \E i \in Pages : Mount(i)
    \/ \E i \in Pages : BeListen(i)
    \/ \E i \in Pages : ListResolved(i)
    \/ \E i \in Pages : ListenResolved(i)
    \/ \E i \in Pages : BePeerList(i)

InitRefresh == InitRunning(RefreshPushes)

SpecRefresh == InitRefresh /\ [][NextRefresh]_vars

\* the ticket button of the connect page
NextTicket ==
    \/ \E i \in Pages : GenerateTicket(i)
    \/ \E i \in Pages : BeGenerateTicket(i)
    \/ \E i \in Pages : GenerateResolved(i)

\* the session and the ticket button: tickets asked for in every session state
SpecTicket == Init /\ [][NextLifecycle \/ NextTicket]_vars

\* the mounted page generating tickets and joining with tickets
InitExchange == InitRunning(ExchangePushes)

SpecExchange == InitExchange /\ [][NextRoster \/ NextTicket]_vars

\* the two buttons of the page, pressed on a page that can be left and opened
\* again while their calls are pending
NextButtons ==
    \/ \E i \in Pages : Leave(i)
    \/ \E i \in Pages : Mount(i)
    \/ \E i \in Pages : BeListen(i)
    \/ \E i \in Pages : ListenResolved(i)
    \/ \E i \in Pages : BePeerList(i)
    \/ \E i \in Pages : ListResolved(i)
    \/ PeerStatusHandler
    \/ DropEvent
    \/ \E i \in Pages, t \in {Encode(1, 7), BadTicket, NoTicket} : ConnectToPeer(i, t, "x")
    \/ \E i \in Pages : BePeerConnect(i)
    \/ \E i \in Pages : ConnectResolved(i)
    \/ NextTicket

SpecButtons == InitRunning(MaxPushes) /\ [][NextButtons]_vars

\* the session seen from the window: start-up, the forms, the account page,
\* logout, and the connect page opened and left
NextLogin ==
    \/ Reload
    \/ \E str \in {Garbage, JsonNull} : Tamper(str)
    \/ \E found \in Users \cup {NoUser} : LayoutMounted(found)
    \/ \E pin \in PinInputs : SubmitLogin(pin)
    \/ \E name \in UsernameInputs, pin \in PinInputs : SubmitCreate(name, pin)
    \/ BeAuth
    \/ FormResolved
    \/ UpdateUsername
    \/ BeUpdateUsername
    \/ RenameResolved
    \/ Logout
    \/ \E i \in Pages : Mount(i)
    \/ \E i \in Pages : Leave(i)

SpecLogin == Init /\ [][NextLogin]_vars

\* a logged-in user on the series and movies pages
NextHero ==
    \/ \E u \in Users : Login(u)
    \/ Logout
    \/ \E p \in HeroPages : HeroOpen(p)
    \/ HeroClose
    \/ MediaChange
    \/ BeLibrary
    \/ LibraryResolved
    \/ HeroTick
    \/ \E k \in 0..(HeroCount - 1) : HeroDot(k)

SpecHero == Init /\ [][NextHero]_vars

\* the pointer, the pin button and the hide timers of the dev toolbar
NextToolbar ==
    \/ EnterBar
    \/ EnterHitbox
    \/ LeaveBar
    \/ LeaveHitbox
    \/ TogglePinned
    \/ \E t \in 1..MaxTimers : TimerFires(t)

SpecToolbar == Init /\ [][NextToolbar]_vars

\* the session with an endpoint that is stopped from outside the page
SpecStop == Init /\ [][NextLifecycle \/ BePeerStop]_vars

\* ------------------------------------------------------------- properties
HasId(list, id) == id \in Ids(list)

HasRecord(list, rec) == \E k \in 1..Len(list) : list[k] = rec

\* C1: snapshot is authoritative. The step in which the 'peer-status' handler
\* runs leaves the roster equal to the pushed list: every pushed record is
\* present and every identity absent from the push is gone.
C1_SnapshotAuthoritative ==
    [][PeerStatusHandler => peers' = Head(events)]_vars

\* a push has been applied that removed an identity and kept another record
C1_Witness ==
    /\ pushDiff.removed
    /\ peers # <<>>

\* C2: once disconnectPeer(X) has returned, the roster does not contain X,
\* whether 'peer_disconnect' resolved or rejected.
C2_DisconnectRemoves ==
    [][\A i \in Pages : DisconnectResolved(i) => ~HasId(peers', discArg[i])]_vars

\* C3: after logout the roster is empty, the endpoint-running flag is false
\* and the local identity is null; the endpoint runs only while a user is
\* logged in.
C3_LogoutStops ==
    currentUser = NoUser =>
        /\ peers = <<>>
        /\ ~isPeerEndpointRunning
        /\ localNodeId = Null

\* C4: a connect that fails (MalformedTicket, Unreachable, Timeout) changes
\* the roster neither in the backend step that rejects it nor in the step in
\* which connectToPeer handles the rejection.
C4_FailedConnectKeepsRoster ==
    [][\A i \in Pages :
          /\ (BePeerConnect(i) /\ ~connRet'[i].ok) =>
                 (beRoster' = beRoster /\ events' = events /\ peers' = peers)
          /\ (ConnectResolved(i) /\ ~connRet[i].ok) =>
                 (peers' = peers /\ beRoster' = beRoster)]_vars

\* a connect with a malformed ticket has returned while the roster is not empty
C4_Witness ==
    \E i \in Pages :
        /\ connPc[i] = "done"
        /\ connRet[i].err = "MalformedTicket"
        /\ peers # <<>>

\* C5: when connectToPeer returns from a successful 'peer_connect', the roster
\* holds the record of the decoded identity with the supplied name, online.
C5_ConnectUpserts ==
    [][\A i \in Pages :
          (ConnectResolved(i) /\ connRet[i].ok) => HasRecord(peers', connRet[i].peer)]_vars

\* C6: roster uniqueness. No two records of the roster share a node_id, in
\* the store the page renders, in the backend roster and in every list on
\* its way to the store.
Unique(list) ==
    \A k, l \in 1..Len(list) : list[k].node_id = list[l].node_id => k = l

C6_RosterUnique ==
    /\ Unique(peers)
    /\ \A r1, r2 \in beRoster : r1.node_id = r2.node_id => r1 = r2
    /\ \A k \in 1..Len(events) : Unique(events[k])
    /\ \A i \in Pages : Unique(mountRet[i].list)

\* the roster holds two peers after the page was opened a second time
C6_Witness ==
    /\ Len(peers) = 2
    /\ \E i \in Pages : i > 1 /\ mountPc[i] = "done"

\* C7: after a connect for an identity has returned (also a repeated one, with
\* another name), the roster holds exactly one record for that identity; it
\* carries the name of that connect and is online.
C7_RenameOnReconnect ==
    [][\A i \in Pages :
          (ConnectResolved(i) /\ connRet[i].ok) =>
              /\ Cardinality({k \in 1..Len(peers') :
                                 peers'[k].node_id = connRet[i].peer.node_id}) = 1
              /\ \A k \in 1..Len(peers') :
                     peers'[k].node_id = connRet[i].peer.node_id =>
                         /\ peers'[k].username = connRet[i].peer.username
                         /\ peers'[k].online]_vars

\* C8: start is idempotent while Running. An onMount that finds the endpoint
\* running issues no 'peer_start' and leaves the flag, the identity and the
\* bound endpoint as they are; the identity shown is the one of the endpoint.
C8_StartIdempotent ==
    /\ [](isPeerEndpointRunning => (beState = "Running" /\ localNodeId = beNodeId))
    /\ [][\A i \in Pages :
             (ListenResolved(i) /\ isPeerEndpointRunning) =>
                 /\ mountPc'[i] = "refresh"
                 /\ isPeerEndpointRunning'
                 /\ localNodeId' = localNodeId
                 /\ beBinds' = beBinds /\ beNodeId' = beNodeId]_vars

\* a page opened while the endpoint was running has asked for the peer list
C8_Witness ==
    \E i \in Pages :
        /\ mountPc[i] = "refresh"
        /\ isPeerEndpointRunning
        /\ localNodeId = beNodeId

C10_FreshEndpointPerUser ==
    \A i \in Pages :
        (/\ loginStale
         /\ pageState[i] = "mounted"
         /\ pageUser[i] = currentUser
         /\ mountPc[i] = "done"
         /\ isPeerEndpointRunning) => beOwner = currentUser

\* C11: a 'peer_start' that rejects with BindError leaves the session not
\* Running; the step in which onMount handles the rejection leaves the flag,
\* the identity and the roster as they were and ends in the catch block
\* (warning and error toast); while no endpoint is running the flag is false
\* and the identity null.
C11_BindErrorKeepsIdle ==
    /\ [](beState # "Running" => (~isPeerEndpointRunning /\ localNodeId = Null))
    /\ [][\A i \in Pages :
             /\ (BePeerStart(i) /\ ~mountRet'[i].ok) =>
                    (beState' = "Failed" /\ beRoster' = beRoster /\ beNodeId' = beNodeId)
             /\ (StartResolved(i) /\ ~mountRet[i].ok) =>
                    /\ isPeerEndpointRunning' = isPeerEndpointRunning
                    /\ localNodeId' = localNodeId
                    /\ peers' = peers
                    /\ mountPc'[i] = "caught"]_vars

\* onMount has finished through its catch block and no endpoint is running
C11_Witness ==
    \E i \in Pages :
        /\ mountPc[i] = "caught"
        /\ beState = "Failed"
        /\ ~isPeerEndpointRunning
        /\ localNodeId = Null

\* C12: the local identity is non-null exactly when the endpoint-running flag
\* is set.
C12_IdentityIffRunning == (localNodeId # Null) <=> isPeerEndpointRunning

\* the flag is set and the identity is the one of the bound endpoint
C12_Witness ==
    /\ isPeerEndpointRunning
    /\ localNodeId # Null
    /\ localNodeId = beNodeId
    /\ \E i \in Pages : mountPc[i] = "done"

\* C13: generate_ticket() requires a Running session. Asked in any other state
\* it answers NotRunning without a ticket, generateTicket ends in its catch
\* block and the ticket shown is left as it was; a ticket is only ever shown
\* while an endpoint is running.
C13_TicketNeedsRunning ==
    /\ [](\A i \in Pages : generatedTicket[i] # NoTicket => beState = "Running")
    /\ [][\A i \in Pages :
             /\ (BeGenerateTicket(i) /\ beState # "Running") => genRet'[i] = NoGen
             /\ (GenerateResolved(i) /\ ~genRet[i].ok) =>
                    /\ generatedTicket' = generatedTicket
                    /\ genPc'[i] = "caught"]_vars

\* after a failed start the generate button was used and the call was rejected
C13_Witness ==
    \E i \in Pages :
        /\ mountPc[i] = "caught"
        /\ beState = "Failed"
        /\ genPc[i] = "caught"
        /\ generatedTicket[i] = NoTicket

\* C14: no step of generateTicket or of generate_ticket(), succeeding or
\* failing, changes the roster, the session state or the local identity.
C14_GenerateReadsOnly ==
    [][\A i \in Pages :
          (GenerateTicket(i) \/ BeGenerateTicket(i) \/ GenerateResolved(i)) =>
              UNCHANGED <<peers, beRoster, events, beState, beNodeId,
                          localNodeId, isPeerEndpointRunning>>]_vars

\* one generateTicket has been rejected and another has produced a ticket
C14_Witness ==
    \E i, j \in Pages :
        /\ genPc[i] = "caught"
        /\ genPc[j] = "done"
        /\ generatedTicket[j] # NoTicket

\* C15: idempotent stop. Every stop() ends in Idle with no identity, a stop()
\* of a manager that is already Idle changes nothing, and no stop() reports
\* an error.
C15_IdempotentStop ==
    /\ [](~stopErr)
    /\ [][BePeerStop => (beState' = "Idle" /\ beNodeId' = Null)]_vars
    /\ [][(BePeerStop /\ beState = "Idle") =>
             UNCHANGED <<beState, beNodeId, beBinds, beRoster, events>>]_vars

\* a bound endpoint has been stopped twice in succession
C15_Witness ==
    /\ beBinds >= 1
    /\ beStops = 2
    /\ beState = "Idle"

C17_TicketsReusable ==
    [][\A i \in Pages :
          (BePeerConnect(i) /\ connArg[i].ticket \in usedTickets) =>
              /\ connRet'[i].ok \/ connRet'[i].err = "Unreachable"
              /\ connRet'[i].ok =>
                     {r.node_id : r \in beRoster'} =
                         {r.node_id : r \in beRoster} \cup {Decode(connArg[i].ticket)}
              /\ ~connRet'[i].ok => beRoster' = beRoster]_vars

\* the ticket of peer 1 has been used by a second successful connect, under
\* another name than the one the roster shows from the first
C17_Witness ==
    \E i \in Pages :
        /\ connPc[i] = "ret"
        /\ connRet[i].ok
        /\ connRet[i].peer.node_id = 1
        /\ usedTickets = {Encode(1, 7)}
        /\ \E k \in 1..Len(peers) :
               /\ peers[k].node_id = 1
               /\ peers[k].username # connRet[i].peer.username

\* C18: only the application of a status push turns a roster entry from
\* online to offline: every step in which an identity stays in the roster
\* and its online flag goes from true to false is a step of the 'peer-status'
\* handler.
C18_OnlyPushMarksOffline ==
    [][(\E k \in 1..Len(peers), l \in 1..Len(peers') :
           /\ peers[k].node_id = peers'[l].node_id
           /\ peers[k].online
           /\ ~peers'[l].online) => PeerStatusHandler]_vars

\* C19: the roster is replaced as a whole. Every step that changes the roster
\* leaves it equal to one complete list, the pushed snapshot or the list
\* returned by 'peer_list', never a mix of old and incoming records, whatever
\* user action is in flight.
C19_SnapshotAtomic ==
    [][peers' # peers =>
          \/ events # <<>> /\ peers' = Head(events)
          \/ \E i \in Pages : mountRet[i].ok /\ peers' = mountRet[i].list]_vars

\* a push that added a second peer was applied while a disconnect was in flight
C19_Witness ==
    /\ pushDiff.added
    /\ Len(peers) = 2
    /\ \E i \in Pages : discPc[i] = "sent"

\* C20: the 'peer-status' handler only applies the snapshot: its step starts
\* or settles no start, stop, connect or disconnect; and a pending call does
\* not hold it back: whenever an event is queued and a handler is registered
\* the handler can run.
C20_ListenerOnlyApplies ==
    /\ [][PeerStatusHandler =>
             UNCHANGED <<mountVars, connVars, discVars, genVars, stopVars,
                         beState, beNodeId, beBinds, beRoster>>]_vars
    /\ []((events # <<>> /\ AnyListener) => ENABLED PeerStatusHandler)

\* the push of a connect was applied before connectToPeer resumed, while a
\* disconnect was waiting for the backend
C20_Witness ==
    \E i \in Pages :
        /\ connPc[i] = "ret"
        /\ connRet[i].ok
        /\ HasRecord(peers, connRet[i].peer)
        /\ discPc[i] = "sent"
        /\ events = <<>>
        /\ pushDiff.added

\* C21: disconnect is idempotent. A 'peer_disconnect' for an identity that is
\* not in the roster (a second disconnect right after a first included)
\* leaves the roster as it is and emits nothing, and absence is no reason to
\* fail: the call can resolve.
C21_AbsentDisconnectNoop ==
    /\ [][\A i \in Pages :
            (BePeerDisconnect(i) /\ beState = "Running" /\ ~HasId(SortedList(beRoster), discArg[i]))
                => (beRoster' = beRoster /\ events' = events)]_vars
    /\ [](\A i \in Pages :
            (discPc[i] = "sent" /\ beState = "Running" /\ ~HasId(SortedList(beRoster), discArg[i]))
                => ENABLED (BePeerDisconnect(i) /\ discRet'[i]))

\* a second disconnect of a peer already removed has been served and resolved
C21_Witness ==
    \E i \in Pages :
        /\ discPc[i] = "ret"
        /\ discNoop[i]
        /\ discRet[i]
        /\ usedTickets # {}

\* C22: the peers store holds the most recent roster the backend produced.
\* When the store equals the backend roster and no push is in flight, the
\* step in which onMount applies a resolved 'peer_list' leaves it that way:
\* a list computed before the last push does not overwrite what the push set.
C22_ListNeverOverwritesPush ==
    [][\A i \in Pages :
          (/\ ListResolved(i)
           /\ mountRet[i].ok
           /\ events = <<>>
           /\ peers = SortedList(beRoster))
              => peers' = SortedList(beRoster')]_vars

\* C23: after the connect page has been destroyed no 'peer-status' listener
\* registered by it is active, also when it was destroyed before listen()
\* resolved.
C23_NoListenerAfterDestroy ==
    \A i \in Pages : pageState[i] = "destroyed" => ~listenerActive[i]

\* C24: once the connect page has mounted and every call of its onMount
\* settles, isStarting eventually becomes false, whatever the outcomes.
C24_StartingEnds ==
    \A i \in Pages : [](mountPc[i] = "listen" => <>(~isStarting[i]))

Pending(pc) == {i \in Pages : pc[i] \in {"sent", "ret"}}

\* C26: isConnecting is true exactly while a 'peer_connect' issued by
\* connectToPeer is pending and isGenerating exactly while
\* 'peer_generate_ticket' is pending; at most one peer_connect is pending at
\* any time; and no call is issued with a blank ticket.
C26_BusyFlagsExact ==
    /\ \A i \in Pages : isConnecting[i] <=> i \in Pending(connPc)
    /\ \A i \in Pages : isGenerating[i] <=> i \in Pending(genPc)
    /\ \A i \in Pages : connPc[i] = "sent" => ~Blank(connArg[i].ticket)
    /\ Cardinality(Pending(connPc)) <= 1

\* C27: currentUser goes from null to a profile only when a 'verify_pin' or
\* 'create_user' call resolved (or at start-up, from sessionStorage); a
\* submission rejected by the form's own checks issues no call, a call the
\* backend rejects leaves currentUser as it is, and the connect page is
\* mounted only for a logged-in user.
C27_LoginOnlyByAuth ==
    /\ [][(currentUser = NoUser /\ currentUser' # NoUser)
              => (Reload \/ (FormResolved /\ formRet # NoUser))]_vars
    /\ [][\A pin \in PinInputs, name \in UsernameInputs :
            /\ (SubmitLogin(pin) /\ ~ValidatePin(pin)) => UNCHANGED <<formPc, currentUser>>
            /\ (SubmitCreate(name, pin) /\ ~(ValidateUsername(name) /\ ValidatePin(pin)))
                  => UNCHANGED <<formPc, currentUser>>]_vars
    /\ [][(FormResolved /\ formRet = NoUser) => UNCHANGED currentUser]_vars
    /\ [](\A i \in Pages : pageState[i] = "mounted" => currentUser # NoUser)

StorageOf(v) == IF v = NoUser THEN Absent ELSE Stringify(v)

\* C28: sessionStorage follows currentUser. Every step that sets the store
\* (a login, a rename, a logout, the creation of the store) leaves under the
\* key the JSON of the new value, or nothing when it is null; a store created
\* while the key holds the JSON of v starts as v; and a stored value that
\* cannot be parsed is removed, the store starting as null.
C28_StorageInStep ==
    [][/\ ((FormResolved /\ formRet # NoUser) \/ (RenameResolved /\ renRet # NoUser)
             \/ Logout \/ Reload \/ currentUser' # currentUser)
            => storage' = StorageOf(currentUser')
       /\ \A u \in Users : (Reload /\ storage = Stringify(u)) => currentUser' = u
       /\ (Reload /\ storage # Absent /\ ParseThrows(storage))
            => (currentUser' = NoUser /\ storage' = Absent)]_vars

\* a window was reloaded while a user was logged in, and came back with that
\* user
C28_Witness ==
    /\ isUserLoading
    /\ currentUser \in Users
    /\ storage = Stringify(currentUser)

\* C29: on the series and movies pages heroIndex is always a valid index of
\* heroItems: whenever the list of hero items is not empty, a featured item
\* is shown.
C29_HeroIndexValid ==
    (heroPage # "none" /\ Len(HeroItems) > 0) => (heroIndex < Len(HeroItems) /\ Featured # NoLib)

\* C30: the dev toolbar never hides while it is pinned or under the pointer:
\* no hide() has run in such a state, at most one hide timer is pending, and
\* none is pending while the toolbar is pinned or the pointer is over it (a
\* mouse-enter or a pin cancels every pending timer).
C30_NoHideWhilePinnedOrHovered ==
    /\ ~hiddenBadly
    /\ Cardinality(timers) <= 1
    /\ (isPinned \/ pointer # "away") => timers = {}

====
